---- MODULE Spec2Model ----
(***************************************************************************)
(* Model of the open-alpha backtesting engine:                             *)
(*   src/src/strategies.py     the signal sources (SMA crossover,          *)
(*                             Momentum, Buy-and-Hold, BaseStrategy)       *)
(*   src/openalpha/backtest.py Backtester.run_backtest and                 *)
(*                             Backtester._calculate_metrics               *)
(*                                                                         *)
(* A pandas Series indexed by the dates of the price history is a          *)
(* sequence indexed 1..Len; date 1 is the first date.  A float is an exact *)
(* rational or NaN (record [nan, n, d]); pandas' NaN rules (comparisons    *)
(* with NaN are false, cumprod/min/max/expanding skip NaN, arithmetic      *)
(* propagates NaN) are modelled by the operators below.                    *)
(***************************************************************************)
EXTENDS Integers, Sequences, FiniteSets, TLC

VARIABLES
    initial_capital,   \* Backtester.initial_capital
    commission,        \* Backtester.commission
    data,              \* the close column of the price history passed to run_backtest
    strategy,          \* the strategy instance passed to run_backtest
    position_size,     \* the position_size argument of run_backtest
    pc,                \* "lookup": get_strategy not yet called; "ready": strategy
                       \* built, run_backtest not yet called; "returned":
                       \* run_backtest returned; "raised": a call raised `error`
    results,           \* the BacktestResults returned (NoResults before the call)
    name,              \* the strategy name given to get_strategy (NoName when the
                       \* caller built the strategy itself)
    params,            \* the keyword parameters given to get_strategy
    error,             \* the exception raised (NoError when none)
    calls,             \* number of run_backtest calls made on the Backtester
    \* MarketDataProvider (the market_data instance)
    cache,             \* MarketDataProvider.cache: cache key -> frame (NoFrame: no entry)
    frames,            \* the DataFrame objects alive: frame -> close column (Free: none)
    held,              \* the frames returned to callers and still referenced by them
    first,             \* cache key -> the data of the first successful fetch of the key
    last_call,         \* the last get_historical_data call and how it ended
    \* LiveTrader and the broker instance
    running,           \* LiveTrader.running
    broker_api,        \* whether broker.api is set
    broker_positions,  \* the quantity the broker holds of each symbol
    trader_pc,         \* where LiveTrader.start is
    market_open,       \* what this iteration's _is_market_open() returned
    symbol_index,      \* the index in LiveTrader.symbols of the symbol processed next
    processed,         \* how each symbol processed in this iteration ended
    orders,            \* the orders given to broker.place_order in this iteration
    interrupted        \* whether a KeyboardInterrupt reached start

backtestVars == <<initial_capital, commission, data, strategy, position_size, pc,
                  results, name, params, error, calls>>
providerVars == <<cache, frames, held, first, last_call>>
traderVars == <<running, broker_api, broker_positions, trader_pc, market_open,
                symbol_index, processed, orders, interrupted>>

vars == <<backtestVars, providerVars, traderVars>>

\* ------------------------------------------------------------------ bounds
MaxLen == 3        \* longest drawn price history
MaxPrice == 3      \* close prices are drawn from 1..MaxPrice
MaxWindow == 2     \* windows / lookback periods are drawn from 1..MaxWindow
MaxCalls == 2      \* run_backtest calls made on one Backtester
MaxFrames == 4     \* DataFrame objects alive at a time

\* ------------------------------------------------------- program constants
TradingDays == 252         \* annualisation constant of _calculate_metrics

\* ------------------------------------------------------------ float layer
Abs(i) == IF i < 0 THEN -i ELSE i

RECURSIVE GCD(_, _)
GCD(a, b) == IF b = 0 THEN a ELSE GCD(b, a % b)

LCM(a, b) == (a \div GCD(a, b)) * b

NaN == [nan |-> TRUE, n |-> 0, d |-> 1]

\* the rational n/d (d # 0) in lowest terms with a positive denominator
Rat(n, d) ==
    LET s == IF d < 0 THEN -1 ELSE 1
        g == GCD(Abs(n), Abs(d))
    IN  [nan |-> FALSE, n |-> (s * n) \div g, d |-> (s * d) \div g]

FromInt(i) == [nan |-> FALSE, n |-> i, d |-> 1]
Zero == FromInt(0)
One == FromInt(1)

Neg(x) == IF x.nan THEN NaN ELSE [x EXCEPT !.n = -x.n]

AbsNum(x) == IF x.nan THEN NaN ELSE [x EXCEPT !.n = Abs(x.n)]

Add(x, y) ==
    IF x.nan \/ y.nan THEN NaN
    ELSE LET l == LCM(x.d, y.d)
         IN  Rat(x.n * (l \div x.d) + y.n * (l \div y.d), l)

Sub(x, y) == Add(x, Neg(y))

Mul(x, y) ==
    IF x.nan \/ y.nan THEN NaN
    ELSE LET g1 == GCD(Abs(x.n), y.d)
             g2 == GCD(Abs(y.n), x.d)
         IN  Rat((x.n \div g1) * (y.n \div g2), (x.d \div g2) * (y.d \div g1))

\* IEEE division: 0/0 is NaN.  A non-zero numerator over zero (an infinity)
\* cannot arise here: close prices are positive, and the only other divisor,
\* the running peak of the equity curve, is zero only when the equity is zero too.
Div(x, y) ==
    IF x.nan \/ y.nan THEN NaN
    ELSE IF y.n = 0 THEN NaN
    ELSE Mul(x, Rat(y.d, y.n))

\* comparisons: every comparison with NaN is false
Lt(x, y) == ~x.nan /\ ~y.nan /\ x.n * y.d < y.n * x.d
Gt(x, y) == Lt(y, x)
Le(x, y) == ~x.nan /\ ~y.nan /\ x.n * y.d <= y.n * x.d
Ge(x, y) == Le(y, x)
Eq(x, y) == ~x.nan /\ ~y.nan /\ x.n * y.d = y.n * x.d

Sign(x) == IF x.n > 0 THEN 1 ELSE IF x.n < 0 THEN -1 ELSE 0

Indices(s) == 1..Len(s)

\* a Series built date by date, held as a sequence of its values
Series(f) == f \o << >>

\* ------------------------------------------------------------ pandas Series
\* Series.shift(1): the value of the previous date, NaN at the first date
Shift(s) == Series([t \in Indices(s) |-> IF t = 1 THEN NaN ELSE s[t - 1]])

\* Series.pct_change(periods) of the integer close column
PctChange(close, periods) ==
    Series([t \in Indices(close) |->
        IF t <= periods THEN NaN
        ELSE Sub(Div(FromInt(close[t]), FromInt(close[t - periods])), One)])

RECURSIVE WindowSum(_, _, _)
WindowSum(close, t, w) ==
    IF w = 0 THEN 0 ELSE close[t] + WindowSum(close, t - 1, w - 1)

\* Series.rolling(window).mean(): NaN until `window` observations are available
RollingMean(close, window) ==
    Series([t \in Indices(close) |->
        IF t < window THEN NaN
        ELSE Rat(WindowSum(close, t, window), window)])

\* Series.diff(): s[t] - s[t-1], NaN at the first date
Diff(s) ==
    LET previous == Shift(s)
    IN  Series([t \in Indices(s) |-> Sub(s[t], previous[t])])

\* Series.replace(0, nan) of an integer Series
ReplaceZeroByNaN(signals) ==
    Series([t \in Indices(signals) |-> IF signals[t] = 0 THEN NaN ELSE FromInt(signals[t])])

RECURSIVE LastValid(_, _)
LastValid(s, t) ==
    IF t = 0 THEN NaN
    ELSE IF ~s[t].nan THEN s[t]
    ELSE LastValid(s, t - 1)

\* Series.fillna(method='ffill'): carry the last non-NaN value forward
FFill(s) == Series([t \in Indices(s) |-> LastValid(s, t)])

\* Series.fillna(0)
FillNaZero(s) == Series([t \in Indices(s) |-> IF s[t].nan THEN Zero ELSE s[t]])

RECURSIVE ProdUpTo(_, _)
ProdUpTo(s, t) ==
    IF t = 0 THEN One
    ELSE IF s[t].nan THEN ProdUpTo(s, t - 1)
    ELSE Mul(ProdUpTo(s, t - 1), s[t])

\* Series.cumprod(): NaN stays NaN at its date, the running product skips it
CumProd(s) == Series([t \in Indices(s) |-> IF s[t].nan THEN NaN ELSE ProdUpTo(s, t)])

RECURSIVE MaxUpTo(_, _)
MaxUpTo(s, t) ==
    IF t = 0 THEN NaN
    ELSE LET m == MaxUpTo(s, t - 1)
         IN  IF s[t].nan THEN m
             ELSE IF m.nan \/ Gt(s[t], m) THEN s[t]
             ELSE m

\* Series.expanding().max(): max of the non-NaN values so far, NaN if none
ExpandingMax(s) == Series([t \in Indices(s) |-> MaxUpTo(s, t)])

RECURSIVE MinUpTo(_, _)
MinUpTo(s, t) ==
    IF t = 0 THEN NaN
    ELSE LET m == MinUpTo(s, t - 1)
         IN  IF s[t].nan THEN m
             ELSE IF m.nan \/ Lt(s[t], m) THEN s[t]
             ELSE m

\* Series.min(): min of the non-NaN values, NaN if there is none
SeriesMin(s) == MinUpTo(s, Len(s))

\* Series.dropna()
DropNa(s) == SelectSeq(s, LAMBDA x : ~x.nan)


\* -------------------------------------------------------------- strategies
\* A strategy instance: its class (kind) and its constructor parameters.
\* kind "custom" is a user subclass of BaseStrategy whose generate_signals
\* returns the fixed sequence `signals`.
NoSignals == << >>

SMAStrategy(fast_window, slow_window) ==
    [kind |-> "sma", fast_window |-> fast_window, slow_window |-> slow_window,
     lookback_period |-> 0, threshold |-> Zero, signals |-> NoSignals]

MomentumStrategy(lookback_period, threshold) ==
    [kind |-> "momentum", fast_window |-> 0, slow_window |-> 0,
     lookback_period |-> lookback_period, threshold |-> threshold,
     signals |-> NoSignals]

BuyAndHoldStrategy ==
    [kind |-> "buy_hold", fast_window |-> 0, slow_window |-> 0,
     lookback_period |-> 0, threshold |-> Zero, signals |-> NoSignals]

CustomStrategy(signals) ==
    [kind |-> "custom", fast_window |-> 0, slow_window |-> 0,
     lookback_period |-> 0, threshold |-> Zero, signals |-> signals]

\* no strategy instance (get_strategy not called, or it raised)
NoStrategy ==
    [kind |-> "none", fast_window |-> 0, slow_window |-> 0,
     lookback_period |-> 0, threshold |-> Zero, signals |-> NoSignals]

\* the keys of the STRATEGIES registry
STRATEGIES == {"sma", "momentum", "buy_hold"}

NoName == ""
NoError == ""
NoParams ==
    [fast_window |-> 0, slow_window |-> 0, lookback_period |-> 0, threshold |-> Zero]

\* mutant of GetStrategy: an unknown name falls back to the SMA crossover
\* (STRATEGIES.get(name, SMAStrategy))
GetStrategyDefaulting(strategy_name, kwargs) ==
    CASE strategy_name = "momentum" ->
            [raised |-> NoError,
             strategy |-> MomentumStrategy(kwargs.lookback_period, kwargs.threshold)]
      [] strategy_name = "buy_hold" ->
            [raised |-> NoError, strategy |-> BuyAndHoldStrategy]
      [] OTHER ->
            [raised |-> NoError,
             strategy |-> SMAStrategy(kwargs.fast_window, kwargs.slow_window)]

\* get_strategy(name, **params): the instance built, or the exception raised.
\* The callers pass fast_window/slow_window for "sma", lookback_period/threshold
\* for "momentum" and nothing otherwise (cli.py:40-46).
GetStrategy(strategy_name, kwargs) ==
    IF strategy_name \notin STRATEGIES
    THEN [raised |-> "ValueError", strategy |-> NoStrategy]
    ELSE CASE strategy_name = "sma" ->
                [raised |-> NoError,
                 strategy |-> SMAStrategy(kwargs.fast_window, kwargs.slow_window)]
           [] strategy_name = "momentum" ->
                [raised |-> NoError,
                 strategy |-> MomentumStrategy(kwargs.lookback_period, kwargs.threshold)]
           [] strategy_name = "buy_hold" ->
                [raised |-> NoError, strategy |-> BuyAndHoldStrategy]

\* mutant of SMASignals: the sell test written with > for <, so that a fast
\* mean staying above the slow mean sells
SMASignalsSellOnTrend(close, fast_window, slow_window) ==
    LET fast_ma == RollingMean(close, fast_window)
        slow_ma == RollingMean(close, slow_window)
        fast_prev == Shift(fast_ma)
        slow_prev == Shift(slow_ma)
    IN  Series([t \in Indices(close) |->
            IF Gt(fast_ma[t], slow_ma[t]) /\ Ge(fast_prev[t], slow_prev[t]) THEN -1
            ELSE IF Gt(fast_ma[t], slow_ma[t]) /\ Le(fast_prev[t], slow_prev[t]) THEN 1
            ELSE 0])

\* mutant of SMASignals: the signal follows the level of the two means, not
\* their crossing
SMASignalsLevel(close, fast_window, slow_window) ==
    LET fast_ma == RollingMean(close, fast_window)
        slow_ma == RollingMean(close, slow_window)
    IN  Series([t \in Indices(close) |->
            IF Lt(fast_ma[t], slow_ma[t]) THEN -1
            ELSE IF Gt(fast_ma[t], slow_ma[t]) THEN 1
            ELSE 0])

\* SMAStrategy.generate_signals
SMASignals(close, fast_window, slow_window) ==
    LET fast_ma == RollingMean(close, fast_window)
        slow_ma == RollingMean(close, slow_window)
        fast_prev == Shift(fast_ma)
        slow_prev == Shift(slow_ma)
    IN  Series([t \in Indices(close) |->
            IF Lt(fast_ma[t], slow_ma[t]) /\ Ge(fast_prev[t], slow_prev[t]) THEN -1
            ELSE IF Gt(fast_ma[t], slow_ma[t]) /\ Le(fast_prev[t], slow_prev[t]) THEN 1
            ELSE 0])

\* mutant of MomentumSignals: signals only for the dates whose momentum is
\* defined (momentum.dropna()), and the strength of the move kept as the value
MomentumSignalsDropNa(close, lookback_period, threshold) ==
    LET momentum == DropNa(PctChange(close, lookback_period))
    IN  Series([t \in Indices(momentum) |->
            IF Lt(momentum[t], Neg(threshold)) THEN -1
            ELSE IF Gt(momentum[t], threshold) THEN 1
            ELSE 0])

\* MomentumStrategy.generate_signals
MomentumSignals(close, lookback_period, threshold) ==
    LET momentum == PctChange(close, lookback_period)
    IN  Series([t \in Indices(close) |->
            IF Lt(momentum[t], Neg(threshold)) THEN -1
            ELSE IF Gt(momentum[t], threshold) THEN 1
            ELSE 0])

\* BuyAndHoldStrategy.generate_signals
BuyAndHoldSignals(close) ==
    Series([t \in Indices(close) |-> IF t = 1 THEN 1 ELSE 0])

\* signals.iloc[0] = 1 raises IndexError on a Series without rows
GenerateSignalsRaises(strat, close) ==
    strat.kind = "buy_hold" /\ Len(close) = 0

\* strategy.generate_signals(data), dispatched on the strategy's class
GenerateSignals(strat, close) ==
    CASE strat.kind = "sma" -> SMASignals(close, strat.fast_window, strat.slow_window)
      [] strat.kind = "momentum" ->
            MomentumSignals(close, strat.lookback_period, strat.threshold)
      [] strat.kind = "buy_hold" -> BuyAndHoldSignals(close)
      [] strat.kind = "custom" -> strat.signals

\* ------------------------------------------------------------ run_backtest
\* mutant of Positions: the forward fill is left out, a 0 signal flattens
PositionsNoCarry(signals) == FillNaZero(ReplaceZeroByNaN(signals))

RECURSIVE SumUpTo(_, _)
SumUpTo(signals, t) == IF t = 0 THEN 0 ELSE SumUpTo(signals, t - 1) + signals[t]

\* mutant of Positions: the signals are accumulated (signals.cumsum()), each
\* buy adding a unit and each sell removing one
PositionsCumSum(signals) ==
    Series([t \in Indices(signals) |-> FromInt(SumUpTo(signals, t))])

\* positions = signals.replace(0, np.nan).fillna(method='ffill').fillna(0)
Positions(signals) == FillNaZero(FFill(ReplaceZeroByNaN(signals)))

\* mutant of Returns: the return of the next date (pct_change().shift(-1))
ReturnsLookahead(close) ==
    Series([t \in Indices(close) |->
        IF t = Len(close) THEN NaN
        ELSE Sub(Div(FromInt(close[t + 1]), FromInt(close[t])), One)])

\* returns = data['close'].pct_change()
Returns(close) == PctChange(close, 1)

\* trades = positions.diff().abs(); commission_costs = trades * self.commission
CommissionCosts(positions, comm) ==
    LET trades == Diff(positions)
    IN  Series([t \in Indices(positions) |-> Mul(AbsNum(trades[t]), comm)])

\* strategy_returns = positions.shift(1) * returns * position_size - commission_costs
StrategyReturns(positions, close, size, comm) ==
    LET applied == Shift(positions)
        returns == Returns(close)
        commission_costs == CommissionCosts(positions, comm)
    IN  Series([t \in Indices(close) |->
            Sub(Mul(Mul(applied[t], returns[t]), size), commission_costs[t])])

\* equity_curve = (1 + strategy_returns).cumprod() * self.initial_capital
EquityCurve(strategy_returns, capital) ==
    LET growth == CumProd(Series([t \in Indices(strategy_returns) |->
                              Add(One, strategy_returns[t])]))
    IN  Series([t \in Indices(strategy_returns) |-> Mul(growth[t], FromInt(capital))])

RECURSIVE TradeLogUpTo(_, _, _, _)
TradeLogUpTo(signals, close, positions, t) ==
    IF t = 0 THEN << >>
    ELSE LET before == TradeLogUpTo(signals, close, positions, t - 1)
         IN  IF signals[t] = 0 THEN before
             ELSE Append(before, [date |-> t, signal |-> signals[t],
                                  price |-> close[t], position |-> positions[t]])

\* mutant of TradeLog: one row per date at which a position is held
\* (positions[positions != 0])
TradeLogHeld(signals, close, positions) ==
    TradeLogUpTo(Series([t \in Indices(signals) |-> positions[t].n]),
                 close, positions, Len(signals))

\* trade_signals = signals[signals != 0]; trades_df: one row per such date
TradeLog(signals, close, positions) ==
    TradeLogUpTo(signals, close, positions, Len(signals))

\* ------------------------------------------------------ _calculate_metrics
RECURSIVE LongDiv(_, _, _, _)
\* `digits` further decimal digits of quotient q with remainder r over divisor d
LongDiv(q, r, d, digits) ==
    IF digits = 0 THEN <<q, r>>
    ELSE LongDiv(q * 10 + ((r * 10) \div d), (r * 10) % d, d, digits - 1)

RECURSIVE Pow10(_)
Pow10(k) == IF k = 0 THEN 1 ELSE 10 * Pow10(k - 1)

\* round(x, digits): nearest multiple of 10^-digits, ties to even; NaN stays NaN
Round(x, digits) ==
    IF x.nan THEN NaN
    ELSE LET a == Abs(x.n)
             qr == LongDiv(a \div x.d, a % x.d, x.d, digits)
             q == qr[1]
             r == qr[2]
             k == IF 2 * r > x.d THEN q + 1
                  ELSE IF 2 * r < x.d THEN q
                  ELSE IF q % 2 = 0 THEN q ELSE q + 1
         IN  Rat(Sign(x) * k, Pow10(digits))

\* round(x * 100, 2)
RoundPercent(x) == Round(Mul(x, FromInt(100)), 2)

\* The metrics annual_return, volatility and sharpe_ratio are irrational in
\* general ((1+r)^(252/N), a square root); they are carried by the sign class
\* of their exact value: "zero", "pos", "neg" or "nan".
SignClass(x) ==
    IF x.nan THEN "nan"
    ELSE IF x.n > 0 THEN "pos" ELSE IF x.n < 0 THEN "neg" ELSE "zero"

\* annual_return = (1 + total_return) ** (252 / len(returns_clean)) - 1
\* numpy's power of a negative base is NaN unless the exponent is integral
AnnualReturn(total_return, count) ==
    LET base == Add(One, total_return)
    IN  IF base.nan THEN "nan"
        ELSE IF base.n > 0 THEN SignClass(Sub(base, One))
        ELSE IF base.n = 0 THEN "neg"
        ELSE IF TradingDays % count # 0 THEN "nan"
        ELSE IF (TradingDays \div count) % 2 = 0 THEN SignClass(Sub(Neg(base), One))
        ELSE "neg"

\* volatility = returns_clean.std() * np.sqrt(252); std (ddof=1) of a single
\* observation is NaN
Volatility(returns_clean) ==
    IF Len(returns_clean) < 2 THEN "nan"
    ELSE IF \A t \in Indices(returns_clean) : Eq(returns_clean[t], returns_clean[1])
         THEN "zero"
    ELSE "pos"

\* sharpe_ratio = annual_return / volatility if volatility > 0 else 0.0
SharpeRatio(annual_return, volatility) ==
    IF volatility = "pos" THEN annual_return ELSE "zero"

\* peak = equity_curve.expanding().max(); drawdown = (equity_curve - peak) / peak
Drawdown(equity_curve) ==
    LET peak == ExpandingMax(equity_curve)
    IN  Series([t \in Indices(equity_curve) |->
            Div(Sub(equity_curve[t], peak[t]), peak[t])])

\* max_drawdown = drawdown.min()
MaxDrawdown(equity_curve) == SeriesMin(Drawdown(equity_curve))

IsPositive(x) == Gt(x, Zero)
IsNonZero(x) == ~Eq(x, Zero)

\* (returns_clean > 0).sum() and (returns_clean != 0).sum()
CountPositive(s) == Len(SelectSeq(s, IsPositive))
CountNonZero(s) == Len(SelectSeq(s, IsNonZero))

\* win_rate = winning_trades / total_trades if total_trades > 0 else 0.0
WinRate(returns_clean) ==
    LET winning_trades == CountPositive(returns_clean)
        total_trades == CountNonZero(returns_clean)
    IN  IF total_trades > 0 THEN Rat(winning_trades, total_trades) ELSE Zero

\* the record returned when the cleaned return series is empty
ZeroMetrics ==
    [total_return |-> Zero, annual_return |-> "zero", volatility |-> "zero",
     sharpe_ratio |-> "zero", max_drawdown |-> Zero, win_rate |-> Zero,
     num_trades |-> 0]

\* total_return = (equity_curve.iloc[-1] / self.initial_capital) - 1
TotalReturn(equity_curve, capital) ==
    Sub(Div(equity_curve[Len(equity_curve)], FromInt(capital)), One)

\* Backtester._calculate_metrics(returns, equity_curve)
CalculateMetrics(returns, equity_curve, capital) ==
    LET returns_clean == DropNa(returns)
        total_return == TotalReturn(equity_curve, capital)
        annual_return == AnnualReturn(total_return, Len(returns_clean))
        volatility == Volatility(returns_clean)
    IN  IF Len(returns_clean) = 0 THEN ZeroMetrics
        ELSE [total_return |-> RoundPercent(total_return),
              annual_return |-> annual_return,
              volatility |-> volatility,
              sharpe_ratio |-> SharpeRatio(annual_return, volatility),
              max_drawdown |-> RoundPercent(MaxDrawdown(equity_curve)),
              win_rate |-> RoundPercent(WinRate(returns_clean)),
              num_trades |-> CountNonZero(returns_clean)]

\* Backtester.run_backtest(data, strategy, position_size)
RunBacktest(capital, comm, close, strat, size) ==
    LET signals == GenerateSignals(strat, close)
        positions == Positions(signals)
        strategy_returns == StrategyReturns(positions, close, size, comm)
        equity_curve == EquityCurve(strategy_returns, capital)
    IN  [returns |-> strategy_returns,
         positions |-> positions,
         trades |-> TradeLog(signals, close, positions),
         metrics |-> CalculateMetrics(strategy_returns, equity_curve, capital),
         equity_curve |-> equity_curve]

\* ------------------------------------------------------------------ inputs
RECURSIVE SeqsOfLen(_, _)
SeqsOfLen(S, k) ==
    IF k = 0 THEN {<< >>}
    ELSE {Append(s, x) : s \in SeqsOfLen(S, k - 1), x \in S}

Prices == 1..MaxPrice
Histories == UNION {SeqsOfLen(Prices, k) : k \in 0..MaxLen}
SignalValues == {-1, 0, 1}
Windows == 1..MaxWindow
Thresholds == {Rat(1, 50), Rat(1, 2)}
Capitals == {1000}
Commissions == {Zero, Rat(1, 10)}
PositionSizes == {One, Rat(1, 2)}
DefaultCommission == Rat(1, 1000)

ShippedStrategies ==
    {SMAStrategy(f, s) : f \in Windows, s \in Windows}
    \cup {MomentumStrategy(l, th) : l \in Windows, th \in Thresholds}
    \cup {BuyAndHoldStrategy}

\* the strategies applicable to a history of `k` dates
StrategiesFor(k) ==
    ShippedStrategies \cup {CustomStrategy(sig) : sig \in SeqsOfLen(SignalValues, k)}

\* the worked scenarios of the specification
ScenarioClose == <<100, 102, 101, 105, 110>>
ForwardFillSignals == <<0, 1, 0, 0, -1, 0>>
FlatClose(k) == Series([t \in 1..k |-> 1])

NoResults ==
    [returns |-> << >>, positions |-> << >>, trades |-> << >>,
     metrics |-> ZeroMetrics, equity_curve |-> << >>]

\* names given to get_strategy: the registered ones and some others
StrategyNames == STRATEGIES \cup {"bollinger", "SMA"}

\* the keyword parameters the callers build for a name
ParamsFor(strategy_name) ==
    CASE strategy_name = "sma" ->
            {[NoParams EXCEPT !.fast_window = f, !.slow_window = w] :
                f \in Windows, w \in Windows}
      [] strategy_name = "momentum" ->
            {[NoParams EXCEPT !.lookback_period = l, !.threshold = th] :
                l \in Windows, th \in Thresholds}
      [] OTHER -> {NoParams}

\* ------------------------------------------------------ MarketDataProvider
Tickers == {"AAPL", "MSFT"}

\* the (ticker, period) pairs asked for; no start_date / end_date is given
Requests == {<<"AAPL", "1mo">>, <<"MSFT", "1mo">>, <<"AAPL", "1y">>}

\* str(None), as the f-string formats an absent date
NoneText == "None"

\* cache_key = f"{ticker}_{period}_{start_date}_{end_date}"
CacheKey(ticker, period, start_date, end_date) ==
    ticker \o "_" \o period \o "_" \o start_date \o "_" \o end_date

CacheKeys == {CacheKey(r[1], r[2], NoneText, NoneText) : r \in Requests}

FrameIds == 1..MaxFrames
NoFrame == 0
Free == << >>

\* what the upstream provider answers: the close column of a cleaned, non-empty
\* frame, or a failure (HTTP error, empty or unusable answer)
UpstreamFrames == {<<1, 2>>, <<2, 1>>, <<1, 1>>}
UpstreamFailure == <<0>>
UpstreamAnswers == UpstreamFrames \cup {UpstreamFailure}

FreeFrames(heap) == {i \in FrameIds : heap[i] = Free}

\* a new DataFrame object: the lowest identity not in use
NewFrame(heap) == CHOOSE i \in FreeFrames(heap) : \A j \in FreeFrames(heap) : i <= j

\* df.copy(): a new object with the same data
Copy(heap, frame) == [heap EXCEPT ![NewFrame(heap)] = heap[frame]]

\* mutant of GetHistoricalData: the frame handed to the caller is itself put in
\* the cache (self.cache[cache_key] = df)
GetHistoricalDataAliasing(entries, heap, cache_key, answer) ==
    IF entries[cache_key] # NoFrame
    THEN [raised |-> NoError, upstream |-> FALSE, frame |-> NewFrame(heap),
          cache |-> entries, frames |-> Copy(heap, entries[cache_key])]
    ELSE IF answer = UpstreamFailure
    THEN [raised |-> "RuntimeError", upstream |-> TRUE, frame |-> NoFrame,
          cache |-> entries, frames |-> heap]
    ELSE LET df == NewFrame(heap)
             fetched == [heap EXCEPT ![df] = answer]
         IN  [raised |-> NoError, upstream |-> TRUE, frame |-> df,
              cache |-> [entries EXCEPT ![cache_key] = df],
              frames |-> fetched]

\* MarketDataProvider.get_historical_data: a hit returns a copy of the cached
\* frame; a miss asks upstream, caches a copy of the frame built from the
\* answer and returns the frame; a failure raises RuntimeError
GetHistoricalData(entries, heap, cache_key, answer) ==
    IF entries[cache_key] # NoFrame
    THEN [raised |-> NoError, upstream |-> FALSE, frame |-> NewFrame(heap),
          cache |-> entries, frames |-> Copy(heap, entries[cache_key])]
    ELSE IF answer = UpstreamFailure
    THEN [raised |-> "RuntimeError", upstream |-> TRUE, frame |-> NoFrame,
          cache |-> entries, frames |-> heap]
    ELSE LET df == NewFrame(heap)
             fetched == [heap EXCEPT ![df] = answer]
             cached == NewFrame(fetched)
         IN  [raised |-> NoError, upstream |-> TRUE, frame |-> df,
              cache |-> [entries EXCEPT ![cache_key] = cached],
              frames |-> Copy(fetched, df)]

NoCall == [key |-> "", hit |-> FALSE, raised |-> NoError, upstream |-> FALSE,
           frame |-> NoFrame]

\* the provider as constructed: nothing cached, nothing handed out
ProviderIdle ==
    /\ cache = [k \in CacheKeys |-> NoFrame]
    /\ frames = [i \in FrameIds |-> Free]
    /\ held = {}
    /\ first = [k \in CacheKeys |-> Free]
    /\ last_call = NoCall

\* ---------------------------------------------------------------- LiveTrader
\* LiveTrader.symbols
Symbols == <<"AAPL", "MSFT">>

\* abs(order_qty) > 0.1
MinOrderQty == Rat(1, 10)

\* LiveTrader.position_size as the live command passes it
TraderPositionSize == Rat(1, 10)

PortfolioValues == {FromInt(1000)}
CurrentPrices == {FromInt(10), FromInt(2000)}
HeldQuantities == {Zero, FromInt(10)}

\* latest_signal = signals.iloc[-1] if len(signals) > 0 else 0
LatestSignal(signals) == IF Len(signals) > 0 THEN signals[Len(signals)] ELSE 0

\* target_qty = target_value / current_price if current_price > 0 else 0
TargetQty(portfolio_value, size, latest_signal, current_price) ==
    LET target_value == Mul(Mul(portfolio_value, size), FromInt(latest_signal))
    IN  IF Gt(current_price, Zero) THEN Div(target_value, current_price) ELSE Zero

\* mutant of Decide: the test of execute_orders is left out
DecideAlwaysExecuting(latest_signal, current_qty, portfolio_value, size, current_price, execute_orders) ==
    LET target_qty == TargetQty(portfolio_value, size, latest_signal, current_price)
        order_qty == Sub(target_qty, current_qty)
    IN  IF Gt(AbsNum(order_qty), MinOrderQty)
        THEN [outcome |-> "order",
              side |-> IF Gt(order_qty, Zero) THEN "buy" ELSE "sell",
              quantity |-> AbsNum(order_qty)]
        ELSE [outcome |-> "no action", side |-> "", quantity |-> Zero]

\* the decision of _process_symbol once signal, position and price are known:
\* an order for broker.place_order, an order only announced (market closed),
\* or no action
Decide(latest_signal, current_qty, portfolio_value, size, current_price, execute_orders) ==
    LET target_qty == TargetQty(portfolio_value, size, latest_signal, current_price)
        order_qty == Sub(target_qty, current_qty)
    IN  IF Gt(AbsNum(order_qty), MinOrderQty)
        THEN [outcome |-> IF execute_orders THEN "order" ELSE "would",
              side |-> IF Gt(order_qty, Zero) THEN "buy" ELSE "sell",
              quantity |-> AbsNum(order_qty)]
        ELSE [outcome |-> "no action", side |-> "", quantity |-> Zero]

\* the trader as constructed, start not called
TraderIdle ==
    /\ running = FALSE
    /\ trader_pc = "idle"
    /\ market_open = FALSE
    /\ symbol_index = 1
    /\ processed = << >>
    /\ orders = << >>
    /\ interrupted = FALSE

\* no live trading: the broker is not connected
NoTrader ==
    /\ TraderIdle
    /\ broker_api = FALSE
    /\ broker_positions = [s \in Tickers |-> Zero]

\* ----------------------------------------------------------- state machine
\* the caller built the strategy itself
Direct ==
    /\ pc = "ready"
    /\ name = NoName
    /\ params = NoParams

DrawnInputs ==
    /\ Direct
    /\ initial_capital \in Capitals
    /\ commission \in Commissions
    /\ data \in Histories
    /\ strategy \in StrategiesFor(Len(data))
    /\ position_size \in IF strategy.kind = "custom" THEN {One} ELSE PositionSizes

BuyAndHoldScenario ==
    /\ Direct
    /\ initial_capital = 1000
    /\ commission = Zero
    /\ data = ScenarioClose
    /\ strategy = BuyAndHoldStrategy
    /\ position_size = One

ForwardFillScenario ==
    /\ Direct
    /\ initial_capital \in Capitals
    /\ commission \in Commissions
    /\ data = FlatClose(Len(ForwardFillSignals))
    /\ strategy = CustomStrategy(ForwardFillSignals)
    /\ position_size = One

\* a flat market traded at a commission of 0.002%: long, then flipped short
FineCommissionScenario ==
    /\ Direct
    /\ initial_capital = 1000
    /\ commission = Rat(1, 50000)
    /\ data = FlatClose(3)
    /\ strategy = CustomStrategy(<<1, 0, -1>>)
    /\ position_size = One

\* the backtest command: the strategy is looked up by name, the Backtester is
\* built with the default commission and run with the default position size
LookupInputs ==
    /\ pc = "lookup"
    /\ name \in StrategyNames
    /\ params \in ParamsFor(name)
    /\ strategy = NoStrategy
    /\ initial_capital \in Capitals
    /\ commission = DefaultCommission
    /\ data \in {<<1, 2, 1>>, << >>}
    /\ position_size = One

Init ==
    /\ \/ DrawnInputs
       \/ BuyAndHoldScenario
       \/ ForwardFillScenario
       \/ FineCommissionScenario
       \/ LookupInputs
    /\ results = NoResults
    /\ error = NoError
    /\ calls = 0
    /\ ProviderIdle
    /\ NoTrader

\* strat = get_strategy(strategy, **strategy_params)
GetStrategyCall ==
    /\ pc = "lookup"
    /\ LET got == GetStrategy(name, params)
       IN  /\ strategy' = got.strategy
           /\ error' = got.raised
           /\ pc' = IF got.raised = NoError THEN "ready" ELSE "raised"
    /\ UNCHANGED <<initial_capital, commission, data, position_size, results,
                   name, params, calls>>
    /\ UNCHANGED <<providerVars, traderVars>>

\* mutant of RunBacktestCall: the Backtester keeps a trade log of its own
\* (self.trades) that every call extends and returns
RunBacktestCallKeepingTrades ==
    /\ pc = "ready"
    /\ IF GenerateSignalsRaises(strategy, data)
       THEN /\ pc' = "raised"
            /\ error' = "IndexError"
            /\ results' = results
       ELSE /\ LET fresh == RunBacktest(initial_capital, commission, data, strategy,
                                        position_size)
               IN  results' = [fresh EXCEPT !.trades = results.trades \o fresh.trades]
            /\ pc' = "returned"
            /\ error' = error
    /\ calls' = calls + 1
    /\ UNCHANGED <<initial_capital, commission, data, strategy, position_size,
                   name, params>>
    /\ UNCHANGED <<providerVars, traderVars>>

\* one call backtester.run_backtest(data, strategy, position_size)
RunBacktestCall ==
    /\ pc = "ready"
    /\ IF GenerateSignalsRaises(strategy, data)
       THEN /\ pc' = "raised"
            /\ error' = "IndexError"
            /\ results' = results
       ELSE /\ results' = RunBacktest(initial_capital, commission, data, strategy,
                                      position_size)
            /\ pc' = "returned"
            /\ error' = error
    /\ calls' = calls + 1
    /\ UNCHANGED <<initial_capital, commission, data, strategy, position_size,
                   name, params>>
    /\ UNCHANGED <<providerVars, traderVars>>

Next ==
    \/ GetStrategyCall
    \/ RunBacktestCall

Spec == Init /\ [][Next]_vars

\* ------------------------------------- one Backtester used for several calls
RepeatHistories == {<< >>, <<1, 2>>, <<2, 1, 3>>, <<3, 1, 2>>}

InitRepeat ==
    /\ Direct
    /\ initial_capital \in Capitals
    /\ commission \in Commissions
    /\ data \in RepeatHistories
    /\ strategy \in ShippedStrategies
    /\ position_size \in PositionSizes
    /\ results = NoResults
    /\ error = NoError
    /\ calls = 0
    /\ ProviderIdle
    /\ NoTrader

\* the caller, holding the results of the last call, prepares another call on
\* the same Backtester and history with a strategy and position size of its own
CallAgain ==
    /\ pc = "returned"
    /\ calls < MaxCalls
    /\ pc' = "ready"
    /\ strategy' \in ShippedStrategies
    /\ position_size' \in PositionSizes
    /\ UNCHANGED <<initial_capital, commission, data, results, name, params, error,
                   calls>>
    /\ UNCHANGED <<providerVars, traderVars>>

NextRepeat ==
    \/ RunBacktestCall
    \/ CallAgain

SpecRepeat == InitRepeat /\ [][NextRepeat]_vars

\* ------------------------------------------------- SMA crossover scenarios
RECURSIVE Rising(_, _)
\* the strictly increasing histories of k dates with day-to-day rises in `steps`
Rising(k, steps) ==
    IF k = 1 THEN {<<p>> : p \in steps}
    ELSE {Append(h, h[Len(h)] + d) : h \in Rising(k - 1, steps), d \in steps}

\* SMAStrategy(fast_window=2, slow_window=3) on a rising history of 10 dates
RisingScenario ==
    /\ Direct
    /\ initial_capital \in Capitals
    /\ commission = Zero
    /\ data \in Rising(10, {1, 2})
    /\ strategy = SMAStrategy(2, 3)
    /\ position_size = One

\* SMA strategies on the histories of 5 dates that wander between three prices
CrossoverScenario ==
    /\ Direct
    /\ initial_capital \in Capitals
    /\ commission = Zero
    /\ data \in SeqsOfLen({1, 2, 3}, 5)
    /\ strategy \in {SMAStrategy(1, 2), SMAStrategy(2, 3), SMAStrategy(2, 1),
                     SMAStrategy(2, 2)}
    /\ position_size = One

InitSMA ==
    /\ \/ RisingScenario
       \/ CrossoverScenario
    /\ results = NoResults
    /\ error = NoError
    /\ calls = 0
    /\ ProviderIdle
    /\ NoTrader

NextSMA == RunBacktestCall

SpecSMA == InitSMA /\ [][NextSMA]_vars

Returned == pc = "returned"

\* ------------------------------------------ the provider used on its own
\* no backtest is in progress
NoBacktest ==
    /\ pc = "none"
    /\ initial_capital = 0
    /\ commission = Zero
    /\ data = << >>
    /\ results = NoResults
    /\ name = NoName
    /\ params = NoParams
    /\ error = NoError
    /\ calls = 0

InitCache ==
    /\ NoBacktest
    /\ strategy = NoStrategy
    /\ position_size = One
    /\ ProviderIdle
    /\ NoTrader

\* the entry of the call in last_call
CallRecord(cache_key, got) ==
    [key |-> cache_key, hit |-> ~got.upstream, raised |-> got.raised,
     upstream |-> got.upstream, frame |-> got.frame]

\* first, after a call: the data of a key's first successful fetch is kept
FirstAfter(cache_key, got, answer) ==
    IF got.upstream /\ got.raised = NoError
    THEN [first EXCEPT ![cache_key] = answer]
    ELSE first

\* a caller's market_data.get_historical_data(ticker, period); the caller
\* keeps the frame it gets. The upstream answer matters on a miss only.
GetHistoricalDataCall ==
    /\ \E r \in Requests :
        \E answer \in IF cache[CacheKey(r[1], r[2], NoneText, NoneText)] # NoFrame
                       THEN {UpstreamFailure} ELSE UpstreamAnswers :
          LET cache_key == CacheKey(r[1], r[2], NoneText, NoneText)
              got == GetHistoricalData(cache, frames, cache_key, answer)
          IN  /\ Cardinality(FreeFrames(frames)) >=
                    (IF cache[cache_key] # NoFrame THEN 1 ELSE 2)
              /\ cache' = got.cache
              /\ frames' = got.frames
              /\ held' = IF got.frame = NoFrame THEN held ELSE held \cup {got.frame}
              /\ first' = FirstAfter(cache_key, got, answer)
              /\ last_call' = CallRecord(cache_key, got)
    /\ UNCHANGED <<backtestVars, traderVars>>

\* a caller changes a frame it was given, in place
MutateFrame ==
    /\ \E f \in held, changed \in UpstreamFrames :
          /\ changed # frames[f]
          /\ frames' = [frames EXCEPT ![f] = changed]
    /\ UNCHANGED <<cache, held, first, last_call>>
    /\ UNCHANGED <<backtestVars, traderVars>>

\* a caller drops a frame; the object goes unless the cache refers to it
ReleaseFrame ==
    /\ \E f \in held :
          /\ held' = held \ {f}
          /\ frames' = IF \E k \in CacheKeys : cache[k] = f
                        THEN frames
                        ELSE [frames EXCEPT ![f] = Free]
    /\ UNCHANGED <<cache, first, last_call>>
    /\ UNCHANGED <<backtestVars, traderVars>>

NextCache ==
    \/ GetHistoricalDataCall
    \/ MutateFrame
    \/ ReleaseFrame

SpecCache == InitCache /\ [][NextCache]_vars

\* ------------------------------------------------------ LiveTrader.start
LiveStrategies == {MomentumStrategy(1, Rat(1, 50)), BuyAndHoldStrategy}

InitLive ==
    /\ NoBacktest
    /\ strategy \in LiveStrategies
    /\ position_size = TraderPositionSize
    /\ ProviderIdle
    /\ TraderIdle
    /\ broker_api \in BOOLEAN
    /\ broker_positions \in [Tickers -> HeldQuantities]

\* start(): returns at once without the broker API, else sets running
Start ==
    /\ trader_pc = "idle"
    /\ IF ~broker_api
       THEN /\ trader_pc' = "returned"
            /\ running' = running
       ELSE /\ trader_pc' = "loop"
            /\ running' = TRUE
    /\ UNCHANGED <<broker_api, broker_positions, market_open, symbol_index,
                   processed, orders, interrupted>>
    /\ UNCHANGED <<backtestVars, providerVars>>

\* the head of an iteration: while self.running, _is_market_open() (the
\* broker's clock or the fallback on the time of day), then the head of
\* _trading_loop or _analysis_loop, whose account and position queries may
\* raise into the loop's outer handler
BeginIteration ==
    /\ trader_pc = "loop"
    /\ running
    /\ \E is_open \in BOOLEAN, account_ok \in BOOLEAN :
          /\ market_open' = is_open
          /\ trader_pc' = IF ~account_ok THEN "sleep"
                          ELSE IF is_open THEN "trading" ELSE "analysis"
    /\ UNCHANGED <<running, broker_api, broker_positions, symbol_index, processed,
                   orders, interrupted>>
    /\ UNCHANGED <<backtestVars, providerVars>>

\* where the trader is after the symbol at symbol_index
AfterSymbol == IF symbol_index = Len(Symbols) THEN "sleep" ELSE trader_pc

\* mutant of AfterSymbolError: the loop over the symbols has no handler of its
\* own, an error in one symbol goes to the handler around the loop
AfterSymbolErrorAbort == "sleep"

\* where the trader is after a symbol whose processing raised: the loop's own
\* except Exception prints the error and the loop goes on
AfterSymbolError == AfterSymbol

\* the points of _process_symbol at which a call may raise, after the fetch
FailurePoints == {"none", "signals", "positions", "price", "order"}

\* the frame given to _process_symbol is a local: it goes when the call ends
ReleaseLocal(got) ==
    IF got.frame = NoFrame THEN got.frames
    ELSE [got.frames EXCEPT ![got.frame] = Free]

\* _process_symbol(symbol, portfolio_value, execute_orders) after the fetch:
\* whether it raised, the latest signal (0 when not reached), how it ended,
\* the order given to broker.place_order if any, and the quantity held after
ProcessSymbol(symbol, close, fetch_raised, failure, current_price, portfolio_value, filled, execute_orders) ==
    LET latest_signal == LatestSignal(GenerateSignals(strategy, close))
        current_qty == broker_positions[symbol]
        decision == Decide(latest_signal, current_qty, portfolio_value,
                           position_size, current_price, execute_orders)
        bought == IF decision.side = "buy" THEN decision.quantity
                  ELSE Neg(decision.quantity)
    IN  IF fetch_raised \/ failure = "signals"
        THEN [raised |-> TRUE, signal |-> 0, outcome |-> "error",
              order |-> << >>, after |-> current_qty]
        ELSE IF failure \in {"positions", "price"}
        THEN [raised |-> TRUE, signal |-> latest_signal, outcome |-> "error",
              order |-> << >>, after |-> current_qty]
        ELSE IF decision.outcome # "order"
        THEN [raised |-> FALSE, signal |-> latest_signal,
              outcome |-> decision.outcome, order |-> << >>, after |-> current_qty]
        ELSE [raised |-> FALSE, signal |-> latest_signal,
              outcome |-> IF failure = "order" THEN "order failed"
                          ELSE "order executed",
              order |-> <<[symbol |-> symbol, side |-> decision.side,
                           quantity |-> decision.quantity]>>,
              after |-> IF failure = "order" \/ ~filled THEN current_qty
                        ELSE Add(current_qty, bought)]

\* one pass of `for symbol in self.symbols`: _process_symbol inside the loop's
\* try / except Exception. The upstream answer matters on a cache miss only,
\* price and fill only where the call gets that far.
ProcessSymbolStep(execute_orders) ==
    /\ symbol_index <= Len(Symbols)
    /\ LET symbol == Symbols[symbol_index]
           cache_key == CacheKey(symbol, "1mo", NoneText, NoneText)
       IN  \E answer \in IF cache[cache_key] # NoFrame THEN {UpstreamFailure}
                         ELSE UpstreamAnswers :
             LET got == GetHistoricalData(cache, frames, cache_key, answer)
                 fetch_raised == got.raised # NoError
                 close == IF fetch_raised THEN << >> ELSE got.frames[got.frame]
             IN  \E failure \in IF fetch_raised THEN {"none"} ELSE FailurePoints :
                 \E current_price \in IF fetch_raised \/ failure \in {"signals", "positions", "price"}
                                      THEN {Zero} ELSE CurrentPrices :
                 \E portfolio_value \in PortfolioValues :
                 \E filled \in IF execute_orders /\ failure = "none"
                              THEN BOOLEAN ELSE {FALSE} :
                   LET done == ProcessSymbol(symbol, close, fetch_raised, failure,
                                             current_price, portfolio_value, filled,
                                             execute_orders)
                   IN  /\ cache' = got.cache
                       /\ frames' = ReleaseLocal(got)
                       /\ first' = FirstAfter(cache_key, got, answer)
                       /\ last_call' = CallRecord(cache_key, got)
                       /\ processed' = Append(processed,
                              [symbol |-> symbol, signal |-> done.signal,
                               outcome |-> done.outcome,
                               before |-> broker_positions[symbol],
                               after |-> done.after])
                       /\ orders' = orders \o done.order
                       /\ broker_positions' =
                              [broker_positions EXCEPT ![symbol] = done.after]
                       /\ trader_pc' = IF done.raised THEN AfterSymbolError
                                       ELSE AfterSymbol
    /\ symbol_index' = symbol_index + 1
    /\ UNCHANGED <<held, running, broker_api, market_open, interrupted>>
    /\ UNCHANGED backtestVars

\* _trading_loop: the market is open, orders are executed
TradingLoopStep ==
    /\ trader_pc = "trading"
    /\ ProcessSymbolStep(TRUE)

\* _analysis_loop: the market is closed, orders are only announced
AnalysisLoopStep ==
    /\ trader_pc = "analysis"
    /\ ProcessSymbolStep(FALSE)

\* time.sleep(interval_minutes * 60), then back to the test of the loop; the
\* iteration is over and its records start afresh
Sleep ==
    /\ trader_pc = "sleep"
    /\ trader_pc' = "loop"
    /\ symbol_index' = 1
    /\ processed' = << >>
    /\ orders' = << >>
    /\ UNCHANGED <<running, broker_api, broker_positions, market_open, interrupted>>
    /\ UNCHANGED <<backtestVars, providerVars>>

\* a KeyboardInterrupt anywhere in the loop: except KeyboardInterrupt calls
\* stop(), and start returns
KeyboardInterrupt ==
    /\ trader_pc \in {"loop", "trading", "analysis", "sleep"}
    /\ running' = FALSE
    /\ interrupted' = TRUE
    /\ trader_pc' = "returned"
    /\ UNCHANGED <<broker_api, broker_positions, market_open, symbol_index,
                   processed, orders>>
    /\ UNCHANGED <<backtestVars, providerVars>>

NextLive ==
    \/ Start
    \/ BeginIteration
    \/ TradingLoopStep
    \/ AnalysisLoopStep
    \/ Sleep
    \/ KeyboardInterrupt

SpecLive == InitLive /\ [][NextLive]_vars

\* ===================================================================== claims
Shipped == strategy.kind \in {"sma", "momentum", "buy_hold"}
LastDate == Len(data)
FinalEquity == results.equity_curve[Len(results.equity_curve)]

\* C1: the equity curve has one value per date of the price history, and its
\* value at the first date equals initial_capital.
C1_EquityCurveStartsAtCapital ==
    (Returned /\ LastDate >= 1) =>
        /\ DOMAIN results.equity_curve = DOMAIN data
        /\ results.equity_curve[1] = FromInt(initial_capital)

\* the close column with the close of date t replaced by p
WithClose(close, t, p) == [close EXCEPT ![t] = p]

\* the net returns run_backtest computes for a history
NetReturns(close, strat, size, comm) ==
    StrategyReturns(Positions(GenerateSignals(strat, close)), close, size, comm)

\* C2: no-lookahead.  Replacing the close of any date t leaves the net return
\* of every date s < t unchanged (same shipped strategy, commission and
\* position size), and the return realised at s is the position decided at
\* s-1 times the price return of s, less the commission on the change at s.
C2_NoLookahead ==
    (Returned /\ Shipped) =>
        /\ \A t \in Indices(data) : \A p \in Prices :
              LET other == NetReturns(WithClose(data, t, p), strategy,
                                      position_size, commission)
              IN  \A s \in 1..(t - 1) : other[s] = results.returns[s]
        /\ \A s \in 2..LastDate :
              results.returns[s] =
                  Sub(Mul(Mul(results.positions[s - 1],
                              Rat(data[s] - data[s - 1], data[s - 1])),
                          position_size),
                      Mul(AbsNum(Sub(results.positions[s], results.positions[s - 1])),
                          commission))

\* a momentum backtest over three dates with a non-zero return at date 2, whose
\* return at date 3 does change when the close of date 3 is replaced
C2_Witness ==
    /\ Returned
    /\ strategy.kind = "momentum"
    /\ LastDate = 3
    /\ IsNonZero(results.returns[2])
    /\ \E p \in Prices :
          NetReturns(WithClose(data, 3, p), strategy, position_size,
                     commission)[3] # results.returns[3]

\* the dates up to t that carry a non-zero signal
DirectiveDates(signals, t) == {u \in 1..t : signals[u] # 0}
LatestDate(S) == CHOOSE u \in S : \A v \in S : v <= u

\* C3: forward fill.  The position at date t is the most recent non-zero
\* signal at or before t, and 0 before the first non-zero signal; a 0 signal
\* never resets it.  Signals [0,1,0,0,-1,0] give positions [0,1,1,1,-1,-1].
C3_ForwardFill ==
    Returned =>
        LET signals == GenerateSignals(strategy, data)
        IN  /\ \A t \in Indices(data) :
                  results.positions[t] =
                      IF DirectiveDates(signals, t) = {} THEN Zero
                      ELSE FromInt(signals[LatestDate(DirectiveDates(signals, t))])
            /\ signals = ForwardFillSignals =>
                  results.positions =
                      <<Zero, One, One, One, FromInt(-1), FromInt(-1)>>

C3_Witness ==
    /\ Returned
    /\ strategy = CustomStrategy(ForwardFillSignals)
    /\ results.positions[4] = One
    /\ results.positions[6] = FromInt(-1)

\* C4: for fixed history, signals and position size, a higher commission rate
\* never gives a greater final equity.
C4_CommissionMonotone ==
    (Returned /\ LastDate >= 1) =>
        \A c2 \in Commissions :
            Le(commission, c2) =>
                LET other == RunBacktest(initial_capital, c2, data, strategy,
                                         position_size)
                IN  ~Gt(other.equity_curve[LastDate], FinalEquity)

\* C5: the reported max drawdown lies in [-100, 0] percent.
C5_MaxDrawdownBound ==
    Returned =>
        /\ Le(FromInt(-100), results.metrics.max_drawdown)
        /\ Le(results.metrics.max_drawdown, Zero)

\* the defined values of the curve never fall from one date to a later one
NonDecreasing(curve) ==
    \A t \in Indices(curve) : \A u \in Indices(curve) :
        (t < u /\ ~curve[t].nan /\ ~curve[u].nan) => Le(curve[t], curve[u])

\* C6: max_drawdown is 0 if and only if the equity curve is non-decreasing.
C6_ZeroDrawdownIffNonDecreasing ==
    Returned =>
        (results.metrics.max_drawdown = Zero <=> NonDecreasing(results.equity_curve))

\* C7: a one-date history, or an all-zero signal sequence, gives num_trades 0
\* and every other metric 0.
C7_DegenerateMetrics ==
    (Returned /\ (LastDate = 1 \/ \A t \in Indices(data) :
                                    GenerateSignals(strategy, data)[t] = 0)) =>
        results.metrics = ZeroMetrics

\* C8: Buy-and-Hold at commission 0 and position size 1 tracks the price:
\* signals +1 then 0, positions all 1, net return close[t]/close[t-1] - 1 from
\* the second date on, final equity initial_capital * close[last]/close[first];
\* the worked scenario ends at equity 1100 and total return 10.0%.
C8_BuyAndHoldTracksPrice ==
    (Returned /\ strategy = BuyAndHoldStrategy /\ commission = Zero
              /\ position_size = One) =>
        /\ \A t \in Indices(data) :
              /\ GenerateSignals(strategy, data)[t] = (IF t = 1 THEN 1 ELSE 0)
              /\ results.positions[t] = One
              /\ t >= 2 => results.returns[t] = Rat(data[t] - data[t - 1], data[t - 1])
        /\ FinalEquity = Rat(initial_capital * data[LastDate], data[1])
        /\ data = ScenarioClose =>
              /\ FinalEquity = FromInt(1100)
              /\ results.metrics.total_return = FromInt(10)

\* C9: the Buy-and-Hold scenario reports num_trades = 1, the number of
\* trade-log entries.
C9_ScenarioNumTrades ==
    (Returned /\ data = ScenarioClose /\ strategy = BuyAndHoldStrategy) =>
        /\ results.metrics.num_trades = 1
        /\ results.metrics.num_trades = Len(results.trades)

\* C10: each shipped strategy returns exactly one signal per input date, on
\* the same index, every value in {-1, 0, 1}.
C10_SignalPostcondition ==
    (Shipped /\ LastDate >= 1) =>
        LET signals == GenerateSignals(strategy, data)
        IN  /\ DOMAIN signals = DOMAIN data
            /\ \A t \in DOMAIN signals : signals[t] \in SignalValues

\* a backtest of a shipped strategy whose signals contain both a buy and a sell
C10_Witness ==
    /\ Returned
    /\ Shipped
    /\ \E t \in Indices(data) : GenerateSignals(strategy, data)[t] = 1
    /\ \E t \in Indices(data) : GenerateSignals(strategy, data)[t] = -1

\* C11: a history without rows is rejected before signal generation, for every
\* strategy: run_backtest never returns results for it, and no error comes out
\* of generate_signals
C11_EmptyHistoryRejected ==
    (LastDate = 0 /\ strategy # NoStrategy) =>
        /\ ~Returned
        /\ error # "IndexError"

\* the strategy was asked for by name and get_strategy has been called
LookedUp == name # NoName /\ pc # "lookup"

\* C12: get_strategy builds an SMAStrategy, MomentumStrategy or
\* BuyAndHoldStrategy exactly for "sma", "momentum" and "buy_hold", with the
\* parameters given; any other name raises ValueError, builds no strategy and
\* no backtest runs
C12_GetStrategyLookup ==
    LookedUp =>
        /\ name = "sma" =>
              strategy = SMAStrategy(params.fast_window, params.slow_window)
        /\ name = "momentum" =>
              strategy = MomentumStrategy(params.lookback_period, params.threshold)
        /\ name = "buy_hold" => strategy = BuyAndHoldStrategy
        /\ name \notin {"sma", "momentum", "buy_hold"} =>
              /\ pc = "raised"
              /\ error = "ValueError"
              /\ strategy = NoStrategy
              /\ results = NoResults

C12_Witness ==
    /\ LookedUp
    /\ name = "bollinger"
    /\ error = "ValueError"

\* the commission deducted at each date: a NaN cost deducts nothing, its date
\* drops out of the running product of the equity curve
CommissionPaid == FillNaZero(CommissionCosts(results.positions, commission))

\* the position held before date t, flat before the first date
PositionBefore(t) == IF t = 1 THEN Zero ELSE results.positions[t - 1]

\* C13: every change of position is charged |change| * commission, the entry
\* at the first date included (the position before it being 0), so that a
\* backtest that enters a position with commission > 0 pays at least one charge
C13_EveryPositionChangeCharged ==
    (Returned /\ LastDate >= 1) =>
        /\ \A t \in Indices(data) :
              Eq(CommissionPaid[t],
                 Mul(AbsNum(Sub(results.positions[t], PositionBefore(t))), commission))
        /\ (/\ Gt(commission, Zero)
            /\ \E t \in Indices(data) : ~Eq(results.positions[t], Zero))
              => \E t \in Indices(data) : Gt(CommissionPaid[t], Zero)

\* C14: whenever the cleaned return series is not empty (a single observation
\* included) every metric is a finite number; zero volatility gives a Sharpe
\* ratio of 0 and no non-zero return gives a win rate of 0
C14_MetricsFinite ==
    (Returned /\ Len(DropNa(results.returns)) >= 1) =>
        /\ ~results.metrics.total_return.nan
        /\ results.metrics.annual_return # "nan"
        /\ results.metrics.volatility # "nan"
        /\ results.metrics.sharpe_ratio # "nan"
        /\ ~results.metrics.max_drawdown.nan
        /\ ~results.metrics.win_rate.nan
        /\ results.metrics.volatility = "zero" =>
              results.metrics.sharpe_ratio = "zero"
        /\ results.metrics.num_trades = 0 => results.metrics.win_rate = Zero

\* C15: the metrics returned by the backtest keep full precision: the total
\* return reported is equity[last] / initial_capital - 1 (as a percentage)
\* without rounding, and likewise the maximum drawdown and the win rate;
\* rounding is left to the presentation
C15_MetricsUnrounded ==
    (Returned /\ Len(DropNa(results.returns)) >= 1 /\ ~FinalEquity.nan) =>
        /\ Eq(results.metrics.total_return,
              Mul(TotalReturn(results.equity_curve, initial_capital), FromInt(100)))
        /\ ~results.metrics.max_drawdown.nan =>
              Eq(results.metrics.max_drawdown,
                 Mul(MaxDrawdown(results.equity_curve), FromInt(100)))
        /\ Eq(results.metrics.win_rate,
              Mul(WinRate(DropNa(results.returns)), FromInt(100)))

StrictlyIncreasing(close) ==
    \A t \in Indices(close) : t > 1 => close[t] > close[t - 1]

\* C17: SMAStrategy(fast_window=2, slow_window=3) emits no sell signal (-1) on
\* any strictly increasing close series of 10 dates
C17_NoSellOnRisingPrices ==
    (/\ strategy = SMAStrategy(2, 3)
     /\ Len(data) = 10
     /\ StrictlyIncreasing(data)) =>
        \A t \in Indices(data) : GenerateSignals(strategy, data)[t] # -1

\* a backtest of such a history has returned, its fast mean above its slow mean
C17_Witness ==
    /\ Returned
    /\ strategy = SMAStrategy(2, 3)
    /\ Len(data) = 10
    /\ StrictlyIncreasing(data)
    /\ Gt(RollingMean(data, 2)[10], RollingMean(data, 3)[10])

\* the two means of an SMA strategy are both defined at date t
MeansDefined(t) ==
    /\ t >= 1
    /\ t >= strategy.fast_window
    /\ t >= strategy.slow_window

\* fast mean minus slow mean at date t, scaled by both windows (an integer of
\* the same sign)
Spread(t) ==
    WindowSum(data, t, strategy.fast_window) * strategy.slow_window
        - WindowSum(data, t, strategy.slow_window) * strategy.fast_window

CrossUp(t) ==
    /\ MeansDefined(t) /\ Spread(t) > 0
    /\ MeansDefined(t - 1) /\ Spread(t - 1) <= 0

CrossDown(t) ==
    /\ MeansDefined(t) /\ Spread(t) < 0
    /\ MeansDefined(t - 1) /\ Spread(t - 1) >= 0

\* C18: the SMA signal is +1 exactly at the dates where the fast mean is above
\* the slow mean and was at or below it the date before, -1 exactly where it is
\* below and was at or above, and 0 everywhere else, in particular wherever the
\* slow mean or its predecessor is undefined; no date is both
C18_SMACrossoverEdges ==
    strategy.kind = "sma" =>
        LET signals == GenerateSignals(strategy, data)
        IN  \A t \in Indices(data) :
                /\ signals[t] = 1 <=> CrossUp(t)
                /\ signals[t] = -1 <=> CrossDown(t)
                /\ signals[t] \in {-1, 0, 1}
                /\ ~(CrossUp(t) /\ CrossDown(t))
                /\ ~(MeansDefined(t) /\ MeansDefined(t - 1)) => signals[t] = 0

\* a returned backtest whose history crosses up, crosses down and stays above
C18_Witness ==
    /\ Returned
    /\ strategy.kind = "sma"
    /\ \E t \in Indices(data) : CrossUp(t)
    /\ \E t \in Indices(data) : CrossDown(t)
    /\ \E t \in Indices(data) :
          MeansDefined(t - 1) /\ Spread(t) > 0 /\ Spread(t - 1) > 0

\* C19: the trade log has exactly one entry per date with a non-zero signal and
\* none for a date with signal 0, in chronological order; an entry carries its
\* date's signal, close and position, and its position equals its signal;
\* positions, returns and equity are what they are without the log
C19_TradeLog ==
    Returned =>
        LET signals == GenerateSignals(strategy, data)
            log == results.trades
        IN  /\ Len(log) = Cardinality({t \in Indices(data) : signals[t] # 0})
            /\ \A i \in Indices(log) :
                  /\ log[i].date \in Indices(data)
                  /\ signals[log[i].date] # 0
                  /\ log[i].signal = signals[log[i].date]
                  /\ log[i].price = data[log[i].date]
                  /\ log[i].position = results.positions[log[i].date]
                  /\ log[i].position = FromInt(log[i].signal)
            /\ \A i, j \in Indices(log) : i < j => log[i].date < log[j].date
            /\ results.positions = Positions(signals)
            /\ results.returns =
                  StrategyReturns(results.positions, data, position_size, commission)
            /\ results.equity_curve = EquityCurve(results.returns, initial_capital)

\* a returned log of several entries over a history with an unlogged date
C19_Witness ==
    /\ Returned
    /\ Len(results.trades) >= 2
    /\ Len(results.trades) < Len(data)
    /\ \E i \in Indices(results.trades) : results.trades[i].signal = -1

\* C20: a position is -1, 0 or 1; once it is not 0 it is not 0 at any later
\* date; and every change of position after the initial entry has magnitude 2
C20_PositionsReverseOnly ==
    Returned =>
        LET positions == results.positions
        IN  /\ \A t \in Indices(positions) :
                  positions[t] \in {FromInt(-1), Zero, One}
            /\ \A t, u \in Indices(positions) :
                  (t < u /\ positions[t] # Zero) => positions[u] # Zero
            /\ \A t \in Indices(positions) :
                  (t > 1 /\ positions[t - 1] # Zero /\ positions[t] # positions[t - 1])
                      => AbsNum(Sub(positions[t], positions[t - 1])) = FromInt(2)

\* a position entered after a flat start, held over a 0 signal and reversed
C20_Witness ==
    /\ Returned
    /\ LastDate >= 3
    /\ results.positions[1] = Zero
    /\ \E t \in Indices(data) :
          /\ t > 1
          /\ results.positions[t - 1] # Zero
          /\ results.positions[t] = Neg(results.positions[t - 1])

OrderOutcomes == {"order executed", "order failed"}

\* C21: broker.place_order is called only in an iteration whose
\* _is_market_open check returned true; in an iteration with the market closed
\* no order is placed for any symbol and no holding changes, whatever the
\* signals; without broker.api start returns with running still false and no
\* symbol processed
C21_OrdersOnlyWhileOpen ==
    /\ orders # << >> => market_open
    /\ trader_pc = "trading" => market_open
    /\ trader_pc = "analysis" => ~market_open
    /\ ~market_open =>
          \A i \in Indices(processed) :
              /\ processed[i].outcome \notin OrderOutcomes
              /\ processed[i].after = processed[i].before
    /\ ~broker_api =>
          /\ ~running
          /\ trader_pc \in {"idle", "returned"}
          /\ processed = << >>
          /\ orders = << >>
          /\ last_call = NoCall

\* the market is closed and a symbol's signal asked for a trade: the order is
\* announced only
C21_Witness ==
    /\ ~market_open
    /\ orders = << >>
    /\ \E i \in Indices(processed) :
          /\ processed[i].outcome = "would"
          /\ processed[i].signal # 0

\* C22: a latest signal of 0 is no directive: no order is placed for the symbol
\* and the quantity held of it stays as it is, whatever is held
C22_ZeroSignalLeavesPosition ==
    \A i \in Indices(processed) :
        (processed[i].signal = 0 /\ processed[i].outcome # "error") =>
            /\ processed[i].outcome \notin OrderOutcomes
            /\ processed[i].after = processed[i].before

\* the data the cache holds for a key (Free: no entry)
Cached(k) == IF cache[k] = NoFrame THEN Free ELSE frames[cache[k]]

\* C23: once a fetch of a key succeeded, the cache holds the data of that first
\* result for good, whatever callers do to the frames they were given; a later
\* call with the key returns data equal to it without asking upstream; a failed
\* fetch adds no entry; no entry is ever replaced or evicted
C23_CacheStable ==
    /\ [](\A k \in CacheKeys :
            /\ Cached(k) = first[k]
            /\ cache[k] \notin held)
    /\ []((last_call.raised # NoError) =>
            /\ last_call.upstream
            /\ cache[last_call.key] = NoFrame)
    /\ [][\A k \in CacheKeys :
            cache[k] # NoFrame =>
                /\ cache'[k] = cache[k]
                /\ Cached(k)' = Cached(k)]_vars
    /\ [][GetHistoricalDataCall =>
            \A k \in CacheKeys :
                (cache[k] # NoFrame /\ last_call'.key = k) =>
                    /\ ~last_call'.upstream
                    /\ last_call'.raised = NoError
                    /\ frames'[last_call'.frame] = first[k]]_vars

\* a key is served from the cache while a frame given out earlier for it has
\* been changed by its caller
C23_Witness ==
    /\ last_call.hit
    /\ last_call.frame \in held
    /\ frames[last_call.frame] = first[last_call.key]
    /\ \E f \in held : frames[f] # Free /\ \A k \in CacheKeys : frames[f] # first[k]

\* C24: an exception while one symbol is processed stops neither the symbols
\* after it in the same iteration, nor running, nor the loop of start: every
\* iteration that reaches its symbols processes all of them in order, and
\* start returns only after a KeyboardInterrupt (or at once, without broker.api)
C24_SymbolErrorsIsolated ==
    /\ \A i \in Indices(processed) : processed[i].symbol = Symbols[i]
    /\ trader_pc \in {"trading", "analysis"} =>
          /\ symbol_index <= Len(Symbols)
          /\ Len(processed) = symbol_index - 1
    /\ (trader_pc = "sleep" /\ processed # << >>) => Len(processed) = Len(Symbols)
    /\ (\E i \in Indices(processed) : processed[i].outcome = "error") =>
          (running \/ interrupted)
    /\ trader_pc = "returned" => (interrupted \/ ~broker_api)
    /\ (broker_api /\ trader_pc # "idle" /\ ~interrupted) => running

\* the first symbol raised and the one after it was traded all the same
C24_Witness ==
    /\ running
    /\ Len(processed) = Len(Symbols)
    /\ processed[1].outcome = "error"
    /\ processed[Len(Symbols)].outcome = "order executed"

====
